---------------------------- MODULE Spec2Model ----------------------------
(***************************************************************************)
(* Model of the Merlin playlist renamer (src/src/merlin_renamer.py) and of *)
(* the ID3 renamer (src/src/rename_from_id3.py).                           *)
(*                                                                         *)
(* Bytes are integers 0..255, byte strings are sequences of bytes, text    *)
(* strings are sequences of Unicode code points.  Offsets are 0-based as   *)
(* in the Python source; sequences are 1-based, so byte o of e is e[o+1].  *)
(***************************************************************************)
EXTENDS Integers, Sequences, FiniteSets, TLC

VARIABLES
    container,    \* bytes of playlist.bin
    folder,       \* source folder: uuid -> state of <uuid>.mp3
    id3_only,     \* args.id3_only
    no_images,    \* args.no_images
    has_mutagen,  \* HAS_MUTAGEN
    pc,           \* position in the program
    i,            \* loop index of read_merlin_playlist
    items,        \* list built by read_merlin_playlist
    k,            \* number of items consumed by the mapping loop of main
    mapping,      \* list built by main
    loc,          \* locals of the last iteration of the mapping loop
    title,        \* argument of sanitize_filename
    safe,         \* result of sanitize_filename(title)
    safe2,        \* result of sanitize_filename(safe)
    site,         \* which tag lookup is called
    tagfile,      \* the media file handed to the tag lookup
    tagresult,    \* what the tag lookup returned
    output_dir,   \* names of the files in the output folder
    row,          \* number of mapping rows consumed by the copy loop of main
    copied,       \* the shutil.copy2 calls made so far, in order
    counts        \* mp3_count, img_count, skipped

vars == <<container, folder, id3_only, no_images, has_mutagen, pc, i, items, k, mapping,
          loc, title, safe, safe2, site, tagfile, tagresult, output_dir, row, copied,
          counts>>

scanVars == <<container, i, items>>
copyVars == <<output_dir, row, copied, counts>>
mainVars == <<folder, id3_only, no_images, has_mutagen, k, mapping, loc, copyVars>>
sanVars  == <<title, safe, safe2>>
tagVars  == <<site, tagfile, tagresult>>

(***************************************************************************)
(* Bounds of the model.                                                    *)
(***************************************************************************)
MaxRecords == 2

(***************************************************************************)
(* Program constants.                                                      *)
(***************************************************************************)
ENTRY_SIZE == 256

UUID_MARKER == <<76, 97, 148, 105, 36>>

UUID_LEN == 36

\* None of Python: a value that is no text string (no code point is negative)
None == <<-1>>

(***************************************************************************)
(* Generic helpers.                                                        *)
(***************************************************************************)
Min(S) == CHOOSE x \in S : \A y \in S : x <= y

Max2(a, b) == IF a >= b THEN a ELSE b

Min2(a, b) == IF a <= b THEN a ELSE b

\* Python slice e[a:b] of a sequence, 0 <= a
Slice(e, a, b) == SubSeq(e, a + 1, Min2(b, Len(e)))

\* [0-9a-fA-F]
IsHex(c) == (c >= 48 /\ c <= 57) \/ (c >= 65 /\ c <= 70) \/ (c >= 97 /\ c <= 102)

(***************************************************************************)
(* find_uuids_in_entry                                                     *)
(***************************************************************************)
\* UUID_PATTERN matches the bytes of e that start at offset o
UuidAt(e, o) ==
    /\ o + UUID_LEN <= Len(e)
    /\ \A n \in 0..(UUID_LEN - 1) :
          IF n \in {8, 13, 18, 23} THEN e[o + n + 1] = 45 ELSE IsHex(e[o + n + 1])

\* re.finditer: leftmost match at or after `from`, then on from its end
RECURSIVE FindIterFrom(_, _, _)
FindIterFrom(e, starts, from) ==
    LET rest == {o \in starts : o >= from}
    IN  IF rest = {} THEN <<>>
        ELSE LET o == Min(rest) IN <<o>> \o FindIterFrom(e, starts, o + UUID_LEN)

FindIter(e) ==
    FindIterFrom(e, {o \in 0..(Len(e) - UUID_LEN) : UuidAt(e, o)}, 0)

\* variant: the window compared one byte too far to the right
MarkerBeforeMutant(e, offset) ==
    \E m \in Max2(0, offset - 5)..(offset - 1) :
        Slice(e, m + 1, m + 1 + Len(UUID_MARKER)) = UUID_MARKER

\* the marker loop: for marker_offset in range(max(0, offset - 5), offset)
MarkerBefore(e, offset) ==
    \E m \in Max2(0, offset - 5)..(offset - 1) :
        Slice(e, m, m + Len(UUID_MARKER)) = UUID_MARKER

find_uuids_in_entry(e) ==
    LET offs == FindIter(e)
    IN  [n \in 1..Len(offs) |->
            [uuid       |-> Slice(e, offs[n], offs[n] + UUID_LEN),
             offset     |-> offs[n],
             has_marker |-> MarkerBefore(e, offs[n])]]

(***************************************************************************)
(* Text: decoding, str.strip, str.isalpha, len.                            *)
(***************************************************************************)
IsCont(b) == b >= 128 /\ b <= 191

\* the concatenation ss[lo] \o ... \o ss[hi] of a sequence of sequences
RECURSIVE FlattenRange(_, _, _)
FlattenRange(ss, lo, hi) ==
    IF lo > hi THEN <<>>
    ELSE IF lo = hi THEN ss[lo]
    ELSE LET mid == (lo + hi) \div 2
         IN  FlattenRange(ss, lo, mid) \o FlattenRange(ss, mid + 1, hi)

\* number of bytes of the UTF-8 character whose first byte is b, 0 when b
\* cannot start one
LeadWidth(b) ==
    IF b < 128 THEN 1
    ELSE IF b >= 194 /\ b <= 223 THEN 2
    ELSE IF b >= 224 /\ b <= 239 THEN 3
    ELSE IF b >= 240 /\ b <= 244 THEN 4
    ELSE 0

\* a well-formed UTF-8 character starts at bs[n]
WellFormedAt(bs, n) ==
    LET w == LeadWidth(bs[n])
    IN  /\ w > 0
        /\ n + w - 1 <= Len(bs)
        /\ \A d \in 1..(w - 1) : IsCont(bs[n + d])
        /\ (bs[n] = 224 => bs[n + 1] >= 160)
        /\ (bs[n] = 237 => bs[n + 1] <= 159)
        /\ (bs[n] = 240 => bs[n + 1] >= 144)
        /\ (bs[n] = 244 => bs[n + 1] <= 143)

\* the continuation byte bs[n] belongs to the character started before it
ContinuesAt(bs, n) ==
    \E d \in 1..3 :
        /\ n - d >= 1
        /\ \A x \in 1..(d - 1) : IsCont(bs[n - x])
        /\ ~IsCont(bs[n - d])
        /\ LeadWidth(bs[n - d]) > d

\* the code point of the well-formed character that starts at bs[n]
CodePointAt(bs, n) ==
    LET w == LeadWidth(bs[n])
    IN  IF w = 1 THEN bs[n]
        ELSE IF w = 2 THEN (bs[n] - 192) * 64 + (bs[n + 1] - 128)
        ELSE IF w = 3 THEN (bs[n] - 224) * 4096 + (bs[n + 1] - 128) * 64
                            + (bs[n + 2] - 128)
        ELSE (bs[n] - 240) * 262144 + (bs[n + 1] - 128) * 4096
                + (bs[n + 2] - 128) * 64 + (bs[n + 3] - 128)

\* bytes.decode('utf-8'), strict: the code points, or None on
\* UnicodeDecodeError
DecodeUtf8(bs) ==
    IF \A n \in 1..Len(bs) :
          IF IsCont(bs[n]) THEN ContinuesAt(bs, n) ELSE WellFormedAt(bs, n)
    THEN FlattenRange([n \in 1..Len(bs) |->
                          IF IsCont(bs[n]) THEN <<>> ELSE <<CodePointAt(bs, n)>>],
                      1, Len(bs))
    ELSE None

\* bytes.decode('latin-1'): every byte is its own code point; never fails
DecodeLatin1(bs) == bs

\* len(s.encode('utf-8'))
Utf8Len(s) ==
    Len(s) + Cardinality({n \in 1..Len(s) : s[n] >= 128})
           + Cardinality({n \in 1..Len(s) : s[n] >= 2048})
           + Cardinality({n \in 1..Len(s) : s[n] >= 65536})

\* the code points for which str.isspace holds
WhiteSpace ==
    {9, 10, 11, 12, 13, 28, 29, 30, 31, 32, 133, 160}
        \cup {5760, 8232, 8233, 8239, 8287, 12288} \cup (8192..8202)

IsSpace(c) == c \in WhiteSpace

\* str.isalpha of one code point, for code points up to U+017F
IsAlpha(c) ==
    \/ (c >= 65 /\ c <= 90) \/ (c >= 97 /\ c <= 122)
    \/ c \in {170, 181, 186}
    \/ (c >= 192 /\ c <= 214) \/ (c >= 216 /\ c <= 246)
    \/ (c >= 248 /\ c <= 383)

\* sum(1 for c in text if c.isalpha())
AlphaCount(text) == Cardinality({n \in 1..Len(text) : IsAlpha(text[n])})

\* s.strip(chars): drop the leading and trailing characters that are in chars
StripChars(s, chars) ==
    LET keep == {n \in 1..Len(s) : s[n] \notin chars}
    IN  IF keep = {} THEN <<>>
        ELSE SubSeq(s, Min(keep), CHOOSE x \in keep : \A y \in keep : y <= x)

\* s.strip()
Strip(s) == StripChars(s, WhiteSpace)

(***************************************************************************)
(* is_uuid_like                                                            *)
(***************************************************************************)
\* re.search(r'[0-9a-fA-F]{8}-[0-9a-fA-F]{4}', text)
HasHexGroup(text) ==
    \E o \in 0..(Len(text) - 13) :
        \A n \in 0..12 : IF n = 8 THEN text[o + n + 1] = 45 ELSE IsHex(text[o + n + 1])

\* sum(1 for c in text if c in '0123456789abcdefABCDEF-')
HexCount(text) == Cardinality({n \in 1..Len(text) : IsHex(text[n]) \/ text[n] = 45})

\* hex_chars / len(text) > 0.7 is 10 * hex_chars > 7 * len(text): the
\* quotient of two integers below 2^53 never rounds onto the double 0.7
\* unless it equals 7/10.
is_uuid_like(text) ==
    IF text = None \/ text = <<>> THEN FALSE
    ELSE IF HasHexGroup(text) THEN TRUE
    ELSE Len(text) > 10 /\ 10 * HexCount(text) > 7 * Len(text)

(***************************************************************************)
(* extract_title_from_entry                                                *)
(***************************************************************************)
\* offsets at which a maximal run of bytes >= 32 starts (the outer while)
RunStarts(e) ==
    {s \in 0..(Len(e) - 1) : e[s + 1] >= 32 /\ (s = 0 \/ e[s] < 32)}

\* where the run that starts at s stops (the inner while)
RunEnd(e, s) ==
    Min({t \in (s + 1)..Len(e) : t = Len(e) \/ e[t + 1] < 32})

\* the filter of the try branch (lines 95-97)
KeepUtf8(text) ==
    /\ Len(text) >= 8
    /\ ~is_uuid_like(text)
    /\ AlphaCount(text) >= 3

\* variant: the except branch without its is_uuid_like test
KeepLatin1Mutant(text) ==
    /\ Len(text) >= 8
    /\ AlphaCount(text) >= 3

\* the filter of the except branch (lines 102-103)
KeepLatin1(text) ==
    /\ Len(text) >= 8 /\ ~is_uuid_like(text)
    /\ AlphaCount(text) >= 3

\* what the run e[start:stop] appends to text_sequences
RunCandidates(e, start, stop) ==
    LET raw  == Slice(e, start, stop)
        utf8 == DecodeUtf8(raw)
    IN  IF utf8 # None
        THEN LET text == Strip(utf8)
             IN  IF KeepUtf8(text) THEN <<[offset |-> start, text |-> text]>> ELSE <<>>
        ELSE LET text == Strip(DecodeLatin1(raw))
             IN  IF KeepLatin1(text) THEN <<[offset |-> start, text |-> text]>> ELSE <<>>

\* text_sequences after the while loop: the candidates in offset order
TextSequences(e) ==
    LET starts == RunStarts(e)
    IN  FlattenRange([n \in 1..Len(e) |->
                         IF (n - 1) \in starts
                         THEN RunCandidates(e, n - 1, RunEnd(e, n - 1))
                         ELSE <<>>],
                     1, Len(e))

\* variant: a sort that reverses the order of equal lengths
InsertByLenMutant(x, s) ==
    LET p == Cardinality({n \in 1..Len(s) : Len(s[n].text) > Len(x.text)})
    IN  SubSeq(s, 1, p) \o <<x>> \o SubSeq(s, p + 1, Len(s))

\* list.sort(key=len of text, reverse=True): stable, so equal lengths keep
\* their order
InsertByLen(x, s) ==
    LET p == Cardinality({n \in 1..Len(s) : Len(s[n].text) >= Len(x.text)})
    IN  SubSeq(s, 1, p) \o <<x>> \o SubSeq(s, p + 1, Len(s))

RECURSIVE SortByLenDesc(_)
SortByLenDesc(s) ==
    IF s = <<>> THEN <<>>
    ELSE InsertByLen(s[Len(s)], SortByLenDesc(SubSeq(s, 1, Len(s) - 1)))

extract_title_from_entry(e) ==
    LET text_sequences == TextSequences(e)
    IN  IF text_sequences # <<>>
        THEN SortByLenDesc(text_sequences)[1].text
        ELSE <<>>

(***************************************************************************)
(* read_merlin_playlist                                                    *)
(***************************************************************************)
\* variant: one record short when the size is a multiple of ENTRY_SIZE
num_entriesMutant(file_size) == (file_size - 1) \div ENTRY_SIZE

\* num_entries = file_size // ENTRY_SIZE
num_entries(file_size) == file_size \div ENTRY_SIZE

\* variant: the first identifier, flagged or not
file_uuidMutant(uuids) == uuids[1].uuid

\* uuid_with_marker[0]['uuid'] if uuid_with_marker else uuids[0]['uuid']
file_uuid(uuids) ==
    LET uuid_with_marker == {n \in 1..Len(uuids) : uuids[n].has_marker}
    IN  IF uuid_with_marker # {} THEN uuids[Min(uuid_with_marker)].uuid
        ELSE uuids[1].uuid

\* one iteration of the for loop of read_merlin_playlist
ReadEntry ==
    /\ pc = "scan"
    /\ i < num_entries(Len(container))
    /\ LET entry == Slice(container, i * ENTRY_SIZE, i * ENTRY_SIZE + ENTRY_SIZE)
       IN  IF Len(entry) < ENTRY_SIZE
           THEN /\ pc' = "scanned"
                /\ UNCHANGED <<i, items>>
           ELSE LET uuids == find_uuids_in_entry(entry)
                IN  /\ items' =
                          IF Len(uuids) >= 1
                          THEN Append(items,
                                   [index     |-> i,
                                    uuid      |-> file_uuid(uuids),
                                    pl_title  |-> extract_title_from_entry(entry),
                                    all_uuids |-> [n \in 1..Len(uuids) |-> uuids[n].uuid]])
                          ELSE items
                    /\ i' = i + 1
                    /\ pc' = pc
    /\ UNCHANGED <<container, mainVars, sanVars, tagVars>>

\* the for loop is exhausted: return items
ScanReturn ==
    /\ pc = "scan"
    /\ i >= num_entries(Len(container))
    /\ pc' = "scanned"
    /\ UNCHANGED <<scanVars, mainVars, sanVars, tagVars>>

(***************************************************************************)
(* Sample playlist records.                                                *)
(***************************************************************************)
UUID1 == <<49, 99, 55, 52, 101, 56, 102, 51, 45, 49, 50, 51, 101, 45, 52, 52, 57,
           55, 45, 57, 54, 52, 98, 45, 54, 55, 50, 48, 102, 49, 56, 49, 55, 48,
           55, 49>>                          \* 1c74e8f3-123e-4497-964b-6720f1817071

UUID2 == <<65, 49, 66, 50, 67, 51, 68, 52, 45, 69, 53, 70, 54, 45, 52, 55, 56,
           57, 45, 65, 66, 67, 68, 45, 69, 70, 48, 49, 50, 51, 52, 53, 54, 55,
           56, 57>>                          \* A1B2C3D4-E5F6-4789-ABCD-EF0123456789

\* "My Favorite Song"
TxtFavorite == <<77, 121, 32, 70, 97, 118, 111, 114, 105, 116, 101, 32, 83, 111, 110, 103>>

\* "Cafe d'ete" with its three accents, encoded as UTF-8 and as Latin-1
TxtCafeUtf8 == <<67, 97, 102, 195, 169, 32, 100, 39, 195, 169, 116, 195, 169>>

TxtCafeLatin1 == <<67, 97, 102, 233, 32, 100, 39, 233, 116, 233>>

\* "Song Two"
TxtSongTwo == <<83, 111, 110, 103, 32, 84, 119, 111>>

\* "Alpha Song" and "Bravo Song": equal lengths
TxtAlpha == <<65, 108, 112, 104, 97, 32, 83, 111, 110, 103>>

TxtBravo == <<66, 114, 97, 118, 111, 32, 83, 111, 110, 103>>

\* "12345 67890 zz": two letters only
TxtDigits == <<49, 50, 51, 52, 53, 32, 54, 55, 56, 57, 48, 32, 122, 122>>

\* "abc"
TxtShort == <<97, 98, 99>>

\* "face-cafe-beef-dd xyz": 17 of 21 characters are hex digits or hyphens
TxtHexy == <<102, 97, 99, 101, 45, 99, 97, 102, 101, 45, 98, 101, 101, 102, 45,
             100, 100, 32, 120, 121, 122>>

\* "  Spaced Title   "
TxtSpaced == <<32, 32, 83, 112, 97, 99, 101, 100, 32, 84, 105, 116, 108, 101, 32, 32, 32>>

\* "-123e-4497-964b-6720f1817071": after UUID1 it makes a second, overlapping
\* match of UUID_PATTERN
TxtOverlapTail == <<45, 49, 50, 51, 101, 45, 52, 52, 57, 55, 45, 57, 54, 52, 98, 45,
                    54, 55, 50, 48, 102, 49, 56, 49, 55, 48, 55, 49>>

\* "Just Some Text Here"
TxtOnly == <<74, 117, 115, 116, 32, 83, 111, 109, 101, 32, 84, 101, 120, 116, 32,
             72, 101, 114, 101>>

Zeros(n) == [j \in 1..n |-> 0]

Pad(bs) == bs \o Zeros(ENTRY_SIZE - Len(bs))

SampleRecords ==
    << Pad(<<>>),
       Pad(Zeros(4) \o UUID_MARKER \o UUID1 \o Zeros(3) \o TxtFavorite),
       Pad(Zeros(8) \o TxtOnly),
       Pad(UUID2 \o Zeros(2) \o UUID_MARKER \o UUID1 \o <<0>> \o TxtCafeUtf8
              \o <<0>> \o TxtSongTwo),
       Pad(<<1>> \o UUID1 \o <<2>> \o UUID2 \o <<3>> \o TxtAlpha \o <<4>> \o TxtBravo
              \o <<0>> \o TxtShort),
       Pad(UUID_MARKER \o <<0>> \o UUID2 \o Zeros(2) \o TxtCafeLatin1 \o <<10>>
              \o TxtDigits),
       Pad(UUID_MARKER \o UUID2 \o <<0>> \o UUID_MARKER \o UUID1 \o <<0>> \o TxtHexy
              \o <<0>> \o TxtSpaced),
       Zeros(3) \o TxtSpaced \o Zeros(200) \o UUID1,
       Pad(Zeros(2) \o UUID1 \o TxtOverlapTail) >>

\* what may follow the last whole record: nothing, or a partial record
SampleTails == {<<>>, UUID_MARKER \o UUID1}

RECURSIVE Concat(_, _)
Concat(samples, idx) ==
    IF idx = <<>> THEN <<>> ELSE samples[Head(idx)] \o Concat(samples, Tail(idx))

Containers(samples, tails) ==
    {Concat(samples, idx) \o t :
        idx \in UNION {[1..n -> DOMAIN samples] : n \in 0..MaxRecords}, t \in tails}

(***************************************************************************)
(* The scan alone: read_merlin_playlist on a sample container.             *)
(***************************************************************************)
NoCounts == [mp3_count |-> 0, img_count |-> 0, skipped |-> 0]

IdleCopy == output_dir = {} /\ row = 0 /\ copied = <<>> /\ counts = NoCounts

IdleMain ==
    /\ folder = <<>> /\ id3_only = FALSE /\ no_images = FALSE /\ has_mutagen = FALSE
    /\ k = 0 /\ mapping = <<>> /\ loc = <<>>
    /\ IdleCopy

IdleSan == title = <<>> /\ safe = <<>> /\ safe2 = <<>>

IdleTag == site = "" /\ tagfile = <<>> /\ tagresult = <<>>

InitScan ==
    /\ container \in Containers(SampleRecords, SampleTails)
    /\ pc = "scan" /\ i = 0 /\ items = <<>>
    /\ IdleMain /\ IdleSan /\ IdleTag

NextScan == ReadEntry \/ ScanReturn

SpecScan == InitScan /\ [][NextScan]_vars

(***************************************************************************)
(* Claims about the scan (checked under SpecScan).                         *)
(***************************************************************************)
\* record j of the container, j < floor(length / 256)
Record(j) == SubSeq(container, j * ENTRY_SIZE + 1, j * ENTRY_SIZE + ENTRY_SIZE)

\* the record holds a match of the UUID pattern
HoldsUuid(rec) == \E o \in 0..(Len(rec) - UUID_LEN) : UuidAt(rec, o)

\* the identifiers of a record, as a set
Identifiers(rec) ==
    LET ids == find_uuids_in_entry(rec) IN {ids[n] : n \in DOMAIN ids}

LowestOffset(S) == CHOOSE u \in S : \A v \in S : u.offset <= v.offset

\* the identifier-like heuristic, as the claims state it
LooksLikeIdentifier(text) ==
    \/ \E o \in 1..(Len(text) - 12) :
          /\ \A n \in 0..7 : IsHex(text[o + n])
          /\ text[o + 8] = 45
          /\ \A n \in 9..12 : IsHex(text[o + n])
    \/ /\ Len(text) > 10
       /\ 10 * Cardinality({n \in 1..Len(text) : IsHex(text[n]) \/ text[n] = 45})
             > 7 * Len(text)

\* the decoded, trimmed text of the printable run that starts at offset s
RunText(rec, s) ==
    LET raw == Slice(rec, s, RunEnd(rec, s))
        u   == DecodeUtf8(raw)
    IN  Strip(IF u # None THEN u ELSE DecodeLatin1(raw))

\* the text candidates of a record that survive filtering
Survivors(rec) ==
    {c \in {[offset |-> s, text |-> RunText(rec, s)] : s \in RunStarts(rec)} :
        /\ Len(c.text) >= 8
        /\ Cardinality({n \in 1..Len(c.text) : IsAlpha(c.text[n])}) >= 3
        /\ ~LooksLikeIdentifier(c.text)}

\* C3: scan examines exactly floor(L/256) records (a shorter tail is
\* ignored) and emits at most one entry per record, in ascending record
\* index; record j yields an entry iff it holds a UUID-pattern match.
C3_ScanExaminesWholeRecords ==
    LET whole == Len(container) \div ENTRY_SIZE
        hits  == {j \in 0..(i - 1) : HoldsUuid(Record(j))}
    IN  /\ i <= whole
        /\ (pc = "scanned" => i = whole)
        /\ {items[n].index : n \in 1..Len(items)} = hits
        /\ Len(items) = Cardinality(hits)
        /\ \A n \in 1..(Len(items) - 1) : items[n].index < items[n + 1].index

\* a finished scan that skipped a record without identifier, emitted one
\* with, and ignored a partial tail
C3_Witness ==
    /\ pc = "scanned"
    /\ Len(container) % ENTRY_SIZE # 0
    /\ i = 2
    /\ Len(items) = 1
    /\ items[1].index = 1

\* C4: canonical uuid is the marker-flagged identifier of the record (the
\* lowest-offset one when several are flagged), else the identifier with the
\* lowest offset; all_uuids lists every identifier in ascending offset order.
C4_CanonicalUuid ==
    \A n \in 1..Len(items) :
        LET ids     == Identifiers(Record(items[n].index))
            flagged == {u \in ids : u.has_marker}
            all     == items[n].all_uuids
        IN  /\ items[n].uuid = IF flagged # {} THEN LowestOffset(flagged).uuid
                                ELSE LowestOffset(ids).uuid
            /\ Len(all) = Cardinality(ids)
            /\ \A a \in 1..Len(all) :
                  \E u \in ids :
                      /\ u.uuid = all[a]
                      /\ Cardinality({v \in ids : v.offset < u.offset}) = a - 1

\* an entry whose canonical uuid is not its first identifier, and an entry
\* with two flagged identifiers
C4_Witness ==
    /\ \E n \in 1..Len(items) : items[n].uuid # items[n].all_uuids[1]
    /\ \E n \in 1..Len(items) :
          /\ Cardinality({u \in Identifiers(Record(items[n].index)) : u.has_marker}) = 2
          /\ items[n].uuid = items[n].all_uuids[1]

\* the marker bytes 4C 61 94 69 24 stand in rec from offset m on
MarkerStandsAt(rec, m) ==
    /\ m + 5 <= Len(rec)
    /\ rec[m + 1] = 76 /\ rec[m + 2] = 97 /\ rec[m + 3] = 148
    /\ rec[m + 4] = 105 /\ rec[m + 5] = 36

\* C5: for every identifier found at offset o, has_marker is true iff the
\* 5-byte marker occurs in the record starting at an offset in [o-5, o-1]
\* (clamped at 0).
C5_HasMarker ==
    \A j \in 0..(i - 1) :
        \A u \in Identifiers(Record(j)) :
            u.has_marker <=>
                \E m \in 0..(ENTRY_SIZE - 1) :
                    /\ m >= u.offset - 5 /\ m <= u.offset - 1
                    /\ MarkerStandsAt(Record(j), m)

\* a scanned record with a flagged identifier, and one whose marker stands
\* too far before the identifier to flag it
C5_Witness ==
    /\ \E j \in 0..(i - 1) : \E u \in Identifiers(Record(j)) : u.has_marker
    /\ \E j \in 0..(i - 1) : \E u \in Identifiers(Record(j)) :
          /\ ~u.has_marker
          /\ u.offset >= 6
          /\ MarkerStandsAt(Record(j), u.offset - 6)

\* a longest survivor of lowest offset
IsLongestFirst(c, S) ==
    \A d \in S : \/ Len(d.text) < Len(c.text)
                 \/ (Len(d.text) = Len(c.text) /\ c.offset <= d.offset)

\* C6: playlist_title is the longest text candidate that survives filtering,
\* the lowest offset winning among equal lengths, and empty when none
\* survives.
C6_LongestTitle ==
    \A n \in 1..Len(items) :
        LET S == Survivors(Record(items[n].index))
        IN  IF S = {} THEN items[n].pl_title = <<>>
            ELSE \E c \in S : IsLongestFirst(c, S) /\ items[n].pl_title = c.text

\* an entry with two different longest survivors, and an entry with none
C6_Witness ==
    /\ \E n \in 1..Len(items) :
          LET S == Survivors(Record(items[n].index))
          IN  \E c, d \in S :
                /\ IsLongestFirst(c, S)
                /\ Len(d.text) = Len(c.text) /\ d.text # c.text
                /\ items[n].pl_title = c.text
    /\ \E n \in 1..Len(items) :
          /\ Survivors(Record(items[n].index)) = {}
          /\ RunStarts(Record(items[n].index)) # {}
          /\ items[n].pl_title = <<>>

\* C7: a UUID-shaped text run is never selected: every playlist_title is
\* empty or a string the identifier-like heuristic does not take for an
\* identifier.
C7_TitleNeverUuidLike ==
    \A n \in 1..Len(items) :
        items[n].pl_title = <<>> \/ ~LooksLikeIdentifier(items[n].pl_title)

\* an entry with a title although its record holds a longer, UUID-shaped run
C7_Witness ==
    \E n \in 1..Len(items) :
        /\ items[n].pl_title # <<>>
        /\ \E s \in RunStarts(Record(items[n].index)) :
              LET t == RunText(Record(items[n].index), s)
              IN  Len(t) > Len(items[n].pl_title) /\ LooksLikeIdentifier(t)

(***************************************************************************)
(* sanitize_filename                                                       *)
(***************************************************************************)
DEFAULT_MAX_LENGTH == 60

\* "unnamed"
Unnamed == <<117, 110, 110, 97, 109, 101, 100>>

\* variant: the control characters left out of the class
InvalidCharsMutant == {92, 47, 58, 42, 63, 34, 60, 62, 124}

\* invalid_chars: \ / : * ? " < > | and \x00-\x1f
InvalidChars == {92, 47, 58, 42, 63, 34, 60, 62, 124} \cup (0..31)

\* variant: everything outside letters, digits and " _-." is replaced
ReplaceInvalidMutant(s) ==
    [n \in 1..Len(s) |->
        IF s[n] \in InvalidChars \/ s[n] \in {33, 35, 36, 37, 38, 39, 40, 41, 43, 44}
        THEN 95 ELSE s[n]]

\* re.sub(invalid_chars, '_', title)
ReplaceInvalid(s) == [n \in 1..Len(s) |-> IF s[n] \in InvalidChars THEN 95 ELSE s[n]]

\* "cc" in s
HasPair(s, c) == \E n \in 1..(Len(s) - 1) : s[n] = c /\ s[n + 1] = c

\* how many c stand directly before s[n]
RunOffset(s, n, c) ==
    LET other == {m \in 1..(n - 1) : s[m] # c}
    IN  IF other = {} THEN n - 1
        ELSE n - 1 - (CHOOSE x \in other : \A y \in other : y <= x)

\* s.replace("cc", "c"): left to right, every second c of a run goes
ReplacePairs(s, c) ==
    FlattenRange([n \in 1..Len(s) |->
                     IF s[n] = c /\ RunOffset(s, n, c) % 2 = 1 THEN <<>> ELSE <<s[n]>>],
                 1, Len(s))

\* while "cc" in safe: safe = safe.replace("cc", "c")
RECURSIVE Collapse(_, _)
Collapse(s, c) == IF HasPair(s, c) THEN Collapse(ReplacePairs(s, c), c) ELSE s

\* safe after lines 40-47: replaced, collapsed and trimmed
Cleaned(s) ==
    StripChars(Strip(Collapse(Collapse(ReplaceInvalid(s), 32), 95)), {46, 95, 45})

\* variant: no cut to the byte budget
TruncateMutant(s, max_length) == s

\* while len(safe.encode('utf-8')) > max_length and safe: safe = safe[:-1]
RECURSIVE Truncate(_, _)
Truncate(s, max_length) ==
    IF Utf8Len(s) > max_length /\ s # <<>>
    THEN Truncate(SubSeq(s, 1, Len(s) - 1), max_length)
    ELSE s

sanitize_filename(t, max_length) ==
    IF t = None \/ t = <<>> THEN Unnamed
    ELSE LET s == Truncate(Cleaned(t), max_length)
         IN  IF s # <<>> THEN s ELSE Unnamed

(***************************************************************************)
(* sanitize_filename on sample titles, applied once and once more.         *)
(***************************************************************************)
MaxTitleLen == 3

PadLen == 57

\* a, space, full stop, slash, tab, e with acute accent
SampleChars == {97, 32, 46, 47, 9, 233}

\* "Café d'été"
CafeDEte == <<67, 97, 102, 233, 32, 100, 39, 233, 116, 233>>

SampleTitles ==
    {None, CafeDEte} \cup
    {pad \o t : pad \in {<<>>, [n \in 1..PadLen |-> 97]},
                t \in UNION {[1..n -> SampleChars] : n \in 0..MaxTitleLen}}

IdleScan == container = <<>> /\ i = 0 /\ items = <<>>

InitSan ==
    /\ title \in SampleTitles
    /\ safe = None /\ safe2 = None
    /\ pc = "sanitize"
    /\ IdleScan /\ IdleMain /\ IdleTag

Sanitize ==
    /\ pc = "sanitize"
    /\ safe' = sanitize_filename(title, DEFAULT_MAX_LENGTH)
    /\ pc' = "sanitized"
    /\ UNCHANGED <<title, safe2, scanVars, mainVars, tagVars>>

SanitizeAgain ==
    /\ pc = "sanitized"
    /\ safe2' = sanitize_filename(safe, DEFAULT_MAX_LENGTH)
    /\ pc' = "resanitized"
    /\ UNCHANGED <<title, safe, scanVars, mainVars, tagVars>>

NextSan == Sanitize \/ SanitizeAgain

SpecSan == InitSan /\ [][NextSan]_vars

(***************************************************************************)
(* Claims about sanitize_filename (checked under SpecSan).                 *)
(***************************************************************************)
\* C2: sanitize is idempotent: sanitize(sanitize(x)) = sanitize(x) for every
\* input x, with the default 60-byte budget.
C2_SanitizeIdempotent == pc = "resanitized" => safe2 = safe

\* C9: the string sanitize returns holds none of \ / : * ? " < > | and no
\* control character (U+0000..U+001F).
C9_NoForbiddenCharacter ==
    pc \in {"sanitized", "resanitized"} =>
        \A n \in 1..Len(safe) :
            /\ safe[n] \notin {92, 47, 58, 42, 63, 34, 60, 62, 124}
            /\ ~(safe[n] >= 0 /\ safe[n] <= 31)

\* a title with a slash and a tab between letters, sanitized
C9_Witness ==
    /\ pc = "sanitized"
    /\ title # None
    /\ \E n, m \in 2..(Len(title) - 1) : title[n] = 47 /\ title[m] = 9
    /\ title[1] = 97 /\ title[Len(title)] = 97
    /\ Len(safe) = Len(title) - 1
    /\ \E n \in 1..Len(safe) : safe[n] = 95

\* C10: the string sanitize returns (default budget) is non-empty and its
\* UTF-8 encoding is at most 60 bytes long; an empty or undefined input, and
\* an input that is empty after replacement, collapsing and trimming, gives
\* exactly "unnamed".
C10_NonEmptyWithinBudget ==
    pc \in {"sanitized", "resanitized"} =>
        /\ safe # None
        /\ Len(safe) >= 1
        /\ Len(safe) + Cardinality({n \in 1..Len(safe) : safe[n] >= 128})
                     + Cardinality({n \in 1..Len(safe) : safe[n] >= 2048})
                     + Cardinality({n \in 1..Len(safe) : safe[n] >= 65536}) <= 60
        /\ (title = None \/ title = <<>> \/ Cleaned(title) = <<>>
                => safe = <<117, 110, 110, 97, 109, 101, 100>>)

\* a title of more than 60 bytes that ends in a two-byte character, cut to fit
C10_Witness ==
    /\ pc = "sanitized"
    /\ title # None
    /\ Utf8Len(title) > 60
    /\ title[Len(title)] = 233
    /\ Len(safe) < Len(title)
    /\ Utf8Len(safe) = 59

\* the title with '_' in the place of every character of the forbidden set
OnlyForbiddenReplaced(t) ==
    [n \in 1..Len(t) |->
        IF t[n] \in {92, 47, 58, 42, 63, 34, 60, 62, 124} \/ (t[n] >= 0 /\ t[n] <= 31)
        THEN 95 ELSE t[n]]

\* how often c stands in s
Occurrences(s, c) == Cardinality({n \in 1..Len(s) : s[n] = c})

\* nothing for the collapsing, the trimming or the cut to remove
IsPlain(t) ==
    /\ Len(t) >= 1 /\ Len(t) <= 30
    /\ \A n \in 1..(Len(t) - 1) : ~(t[n] = t[n + 1] /\ t[n] \in {32, 95})
    /\ \A n \in {1, Len(t)} : ~IsSpace(t[n]) /\ t[n] \notin {46, 95, 45}

\* C11: sanitize replaces only characters of the forbidden set with '_';
\* every other character, letters with diacritics and the apostrophe among
\* them, passes through unchanged: what sanitize returns is made of the
\* characters of the title after that replacement (or is "unnamed"), a title
\* that leaves nothing to collapse, trim or cut comes back as the title after
\* that replacement, and sanitize("Café d'été") returns "Café d'été".
C11_OnlyForbiddenReplaced ==
    pc \in {"sanitized", "resanitized"} /\ title # None =>
        /\ \/ safe = <<117, 110, 110, 97, 109, 101, 100>>
           \/ \A n \in 1..Len(safe) :
                  Occurrences(safe, safe[n])
                      <= Occurrences(OnlyForbiddenReplaced(title), safe[n])
        /\ IsPlain(OnlyForbiddenReplaced(title)) => safe = OnlyForbiddenReplaced(title)
        /\ title = <<67, 97, 102, 233, 32, 100, 39, 233, 116, 233>> => safe = title

\* "Café d'été" sanitized: the apostrophe and the accented letters are there
C11_Witness ==
    /\ pc = "sanitized"
    /\ title = <<67, 97, 102, 233, 32, 100, 39, 233, 116, 233>>
    /\ safe[7] = 39 /\ safe[4] = 233 /\ safe[8] = 233 /\ safe[10] = 233

(***************************************************************************)
(* The embedded-tag lookups: get_id3_title (merlin_renamer.py) and         *)
(* get_title_from_id3 (rename_from_id3.py).                                *)
(*                                                                         *)
(* A media file is [exists, readable, tags]: readable says whether         *)
(* ID3(filepath) returns instead of raising; tags maps a frame key to      *)
(* str(frame.text[0]), to NoText when the frame has an empty text list     *)
(* (frame.text[0] raises IndexError), or to None when the file has no such *)
(* frame.  images is the set of suffixes s for which <stem>s exists beside  *)
(* the file.                                                               *)
(***************************************************************************)
\* a frame whose text list is empty: no text string (no code point is negative)
NoText == <<-2>>

TagKeys == {"TIT2", "TIT1", "TALB", "TRCK"}

NoTags == [key \in TagKeys |-> None]

MissingFile == [exists |-> FALSE, readable |-> FALSE, tags |-> NoTags, images |-> {}]

UnreadableFile == [exists |-> TRUE, readable |-> FALSE, tags |-> NoTags, images |-> {}]

TaggedFile(t) == [exists |-> TRUE, readable |-> TRUE, tags |-> t, images |-> {}]

\* variant: any non-empty text is returned
RECURSIVE FirstLongTextMutant(_, _)
FirstLongTextMutant(tags, keys) ==
    IF keys = <<>> THEN None
    ELSE LET text == tags[Head(keys)]
         IN  IF text = None THEN FirstLongTextMutant(tags, Tail(keys))
             ELSE IF text = NoText THEN None
             ELSE IF text # <<>> THEN text
             ELSE FirstLongTextMutant(tags, Tail(keys))

\* for tag in ['TIT2', 'TIT1', 'TALB']: the first frame whose text has at
\* least 3 characters; an IndexError ends the search in the except clause
RECURSIVE FirstLongText(_, _)
FirstLongText(tags, keys) ==
    IF keys = <<>> THEN None
    ELSE LET text == tags[Head(keys)]
         IN  IF text = None THEN FirstLongText(tags, Tail(keys))
             ELSE IF text = NoText THEN None
             ELSE IF text # <<>> /\ Len(text) >= 3 THEN text
             ELSE FirstLongText(tags, Tail(keys))

\* variant: what the failed read left behind is returned
get_id3_titleMutant(file) ==
    IF ~has_mutagen THEN None
    ELSE IF ~file.exists THEN None
    ELSE IF ~file.readable THEN NoText
    ELSE FirstLongText(file.tags, <<"TIT2", "TIT1", "TALB">>)

\* def get_id3_title(filepath): None without mutagen, for a missing file and
\* whenever reading the tags raises
get_id3_title(file) ==
    IF ~has_mutagen THEN None
    ELSE IF ~file.exists \/ ~file.readable THEN None
    ELSE FirstLongText(file.tags, <<"TIT2", "TIT1", "TALB">>)

\* str(tags[key].text[0]), None when it raises
FirstText(tags, key) == IF tags[key] = NoText THEN None ELSE tags[key]

\* if 'TIT2' in tags: return ... elif 'TIT1' in tags: ... elif 'TRCK' in tags
get_title_from_id3(file) ==
    IF ~has_mutagen THEN None
    ELSE IF ~file.exists \/ ~file.readable THEN None
    ELSE IF file.tags["TIT2"] # None THEN FirstText(file.tags, "TIT2")
    ELSE IF file.tags["TIT1"] # None THEN FirstText(file.tags, "TIT1")
    ELSE IF file.tags["TRCK"] # None THEN FirstText(file.tags, "TRCK")
    ELSE None

\* sample frame texts: absent, without text, empty, two characters, a title
SampleTexts ==
    [TIT2 |-> {None, NoText, <<>>, <<65, 66>>,
               <<82, 101, 97, 108, 32, 84, 105, 116, 108, 101>>},
     TIT1 |-> {None, NoText, <<>>, <<67, 68>>, <<83, 111, 110, 103, 32, 65>>},
     TALB |-> {None, <<>>, <<65, 108, 98, 117, 109, 32, 88>>},
     TRCK |-> {None, <<>>, <<55>>}]

SampleFiles ==
    {MissingFile, UnreadableFile} \cup
    {TaggedFile(t) :
        t \in {f \in [TagKeys -> UNION {SampleTexts[key] : key \in TagKeys}] :
                  \A key \in TagKeys : f[key] \in SampleTexts[key]}}

InitTag ==
    /\ site \in {"merlin_renamer", "rename_from_id3"}
    /\ tagfile \in SampleFiles
    /\ tagresult = None
    /\ has_mutagen \in BOOLEAN
    /\ pc = "lookup"
    /\ folder = <<>> /\ id3_only = FALSE /\ no_images = FALSE
    /\ k = 0 /\ mapping = <<>> /\ loc = <<>>
    /\ IdleCopy
    /\ IdleScan /\ IdleSan

LookupMerlin ==
    /\ pc = "lookup"
    /\ site = "merlin_renamer"
    /\ tagresult' = get_id3_title(tagfile)
    /\ pc' = "looked"
    /\ UNCHANGED <<site, tagfile, scanVars, mainVars, sanVars>>

LookupId3 ==
    /\ pc = "lookup"
    /\ site = "rename_from_id3"
    /\ tagresult' = get_title_from_id3(tagfile)
    /\ pc' = "looked"
    /\ UNCHANGED <<site, tagfile, scanVars, mainVars, sanVars>>

NextTag == LookupMerlin \/ LookupId3

SpecTag == InitTag /\ [][NextTag]_vars

\* C8: the lookup tries its keys in the order of its call site (TIT2, TIT1,
\* TALB in merlin_renamer; TIT2, TIT1, TRCK in rename_from_id3) and returns
\* the first non-empty value found; it returns nothing when the file is
\* missing, the tags are unreadable, or no candidate key is present.
C8_FirstNonEmptyValue ==
    pc = "looked" /\ has_mutagen =>
        LET keys    == IF site = "merlin_renamer" THEN <<"TIT2", "TIT1", "TALB">>
                       ELSE <<"TIT2", "TIT1", "TRCK">>
            usable  == tagfile.exists /\ tagfile.readable
            present == {n \in 1..3 : tagfile.tags[keys[n]] # None}
            filled  == {n \in present : tagfile.tags[keys[n]] \notin {NoText, <<>>}}
        IN  /\ (~usable \/ present = {} => tagresult = None)
            /\ (usable /\ filled # {} => tagresult = tagfile.tags[keys[Min(filled)]])

\* C8 as amended: get_id3_title returns the first value of at least 3
\* characters among TIT2, TIT1, TALB, skipping shorter ones;
\* get_title_from_id3 returns the value of the first key present among TIT2,
\* TIT1, TRCK, empty or not.  Both return nothing when mutagen is not
\* installed, the file is missing, the tags are unreadable, the search meets
\* a frame without text, or no such key is present.
C8_LookupAsCoded ==
    pc = "looked" =>
        LET tags   == tagfile.tags
            usable == has_mutagen /\ tagfile.exists /\ tagfile.readable
        IN  IF ~usable THEN tagresult = None
            ELSE IF site = "merlin_renamer"
            THEN LET keys == <<"TIT2", "TIT1", "TALB">>
                     long == {n \in 1..3 : /\ tags[keys[n]] \notin {None, NoText}
                                           /\ Len(tags[keys[n]]) >= 3
                                           /\ \A m \in 1..(n - 1) :
                                                 tags[keys[m]] # NoText}
                 IN  tagresult = IF long = {} THEN None ELSE tags[keys[Min(long)]]
            ELSE LET keys    == <<"TIT2", "TIT1", "TRCK">>
                     present == {n \in 1..3 : tags[keys[n]] # None}
                 IN  tagresult = IF present = {} \/ tags[keys[Min(present)]] = NoText
                                 THEN None
                                 ELSE tags[keys[Min(present)]]

\* get_id3_title passed over a two-character TIT2 and returned TIT1
C8_Witness ==
    /\ pc = "looked"
    /\ site = "merlin_renamer"
    /\ has_mutagen
    /\ tagfile.exists /\ tagfile.readable
    /\ Len(tagfile.tags["TIT2"]) = 2
    /\ tagfile.tags["TIT2"] # NoText
    /\ tagfile.tags["TIT1"] \notin {None, NoText}
    /\ Len(tagfile.tags["TIT1"]) >= 3
    /\ tagresult = tagfile.tags["TIT1"]

(***************************************************************************)
(* main of merlin_renamer.py: the scan, then the mapping loop.             *)
(***************************************************************************)
\* no image: img_src is None
NoImage == ""

\* the suffix of the image find_matching_image returns for <uuid>.mp3
find_matching_image(file) ==
    IF ~file.exists THEN NoImage
    ELSE IF ".jpg" \in file.images THEN ".jpg"
    ELSE IF ".jpeg" \in file.images THEN ".jpeg"
    ELSE IF ".JPG" \in file.images THEN ".JPG"
    ELSE IF ".JPEG" \in file.images THEN ".JPEG"
    ELSE NoImage

\* a truthy string: neither None nor empty
Truthy(text) == text # None /\ text # <<>>

\* variant: the playlist title tried before the tag title
ResolveTitleMutant(id3_title, pl_title, uuid) ==
    IF Truthy(pl_title) /\ ~is_uuid_like(pl_title)
    THEN [final_title |-> pl_title, title_source |-> "PLAYLIST"]
    ELSE IF Truthy(id3_title)
    THEN [final_title |-> id3_title, title_source |-> "ID3"]
    ELSE [final_title |-> uuid, title_source |-> "UUID"]

\* lines 236-244: [final_title, title_source]
ResolveTitle(id3_title, pl_title, uuid) ==
    IF Truthy(id3_title)
    THEN [final_title |-> id3_title, title_source |-> "ID3"]
    ELSE IF Truthy(pl_title) /\ ~is_uuid_like(pl_title)
    THEN [final_title |-> pl_title, title_source |-> "PLAYLIST"]
    ELSE [final_title |-> uuid, title_source |-> "UUID"]

\* the media files of the sample source folders: none; one whose tags cannot
\* be read; tagged "Real Title", with a .jpg beside it; tagged "AB" and album
\* "Album X", with a .JPEG
MainFiles ==
    { MissingFile,
      UnreadableFile,
      [TaggedFile([NoTags EXCEPT
                      !["TIT2"] = <<82, 101, 97, 108, 32, 84, 105, 116, 108, 101>>])
          EXCEPT !.images = {".jpg"}],
      [TaggedFile([NoTags EXCEPT !["TIT2"] = <<65, 66>>,
                                 !["TALB"] = <<65, 108, 98, 117, 109, 32, 88>>])
          EXCEPT !.images = {".JPEG"}] }

\* records of the sample playlists: no identifier; UUID1 with a title; UUID1
\* without; UUID2 with a title
MainRecords ==
    <<SampleRecords[1], SampleRecords[2], SampleRecords[9], SampleRecords[6]>>

Init ==
    /\ container \in Containers(MainRecords, {<<>>})
    /\ folder = <<>>
    /\ id3_only \in BOOLEAN
    /\ no_images \in BOOLEAN
    /\ has_mutagen \in BOOLEAN
    /\ pc = "scan" /\ i = 0 /\ items = <<>>
    /\ k = 0 /\ mapping = <<>> /\ loc = <<>>
    /\ IdleCopy
    /\ IdleSan /\ IdleTag

\* if not items: print, return
NoItems ==
    /\ pc = "scanned"
    /\ items = <<>>
    /\ pc' = "done"
    /\ UNCHANGED <<scanVars, mainVars, sanVars, tagVars>>

\* mapping = []; the loop that follows is the first to look into the source
\* folder, whose state is fixed here
StartMapping ==
    /\ pc = "scanned"
    /\ items # <<>>
    /\ pc' = "map"
    /\ k' = 0
    /\ mapping' = <<>>
    /\ folder' \in [{UUID1, UUID2} -> MainFiles]
    /\ UNCHANGED <<scanVars, id3_only, no_images, has_mutagen, loc,
                   copyVars, sanVars, tagVars>>

\* one iteration of for item in items (lines 228-263)
MapItem ==
    /\ pc = "map"
    /\ k < Len(items)
    /\ LET item       == items[k + 1]
           uuid       == item.uuid
           src_mp3    == folder[uuid]
           mp3_exists == src_mp3.exists
           id3_title  == IF mp3_exists /\ has_mutagen THEN get_id3_title(src_mp3)
                         ELSE None
           pl_title   == IF ~id3_only THEN item.pl_title ELSE None
           resolved   == ResolveTitle(id3_title, pl_title, uuid)
           safe_title == sanitize_filename(resolved.final_title, DEFAULT_MAX_LENGTH)
           img_path   == IF no_images THEN NoImage ELSE find_matching_image(src_mp3)
       IN  /\ mapping' = Append(mapping,
                              [uuid         |-> uuid,
                               final_title  |-> safe_title,
                               id3_title    |-> id3_title,
                               pl_title     |-> pl_title,
                               title_source |-> resolved.title_source,
                               mp3_src      |-> uuid,
                               mp3_exists   |-> mp3_exists,
                               img_src      |-> img_path])
           /\ loc' = [uuid         |-> uuid,
                      id3_title    |-> id3_title,
                      pl_title     |-> pl_title,
                      final_title  |-> resolved.final_title,
                      title_source |-> resolved.title_source,
                      safe_title   |-> safe_title]
    /\ k' = k + 1
    /\ pc' = pc
    /\ UNCHANGED <<scanVars, folder, id3_only, no_images, has_mutagen, copyVars,
                   sanVars, tagVars>>

\* str(counter)
RECURSIVE Str(_)
Str(n) == IF n < 10 THEN <<48 + n>> ELSE Str(n \div 10) \o <<48 + (n % 10)>>

\* the characters of a file suffix
SuffixText(suffix) ==
    CASE suffix = ".mp3"  -> <<46, 109, 112, 51>>
      [] suffix = ".jpg"  -> <<46, 106, 112, 103>>
      [] suffix = ".jpeg" -> <<46, 106, 112, 101, 103>>
      [] suffix = ".JPG"  -> <<46, 74, 80, 71>>
      [] suffix = ".JPEG" -> <<46, 74, 80, 69, 71>>

\* m['img_src'].suffix.lower()
Lower(suffix) ==
    CASE suffix = ".JPG"  -> ".jpg"
      [] suffix = ".JPEG" -> ".jpeg"
      [] OTHER            -> suffix

\* the while True loop of get_unique_path, entered with the given counter;
\* dir is the set of names that exist in output_dir
RECURSIVE UniqueFrom(_, _, _, _)
UniqueFrom(dir, base_name, extension, counter) ==
    LET dst_path == base_name \o <<95>> \o Str(counter) \o extension
    IN  IF dst_path \notin dir THEN dst_path
        ELSE UniqueFrom(dir, base_name, extension, counter + 1)

\* variant: the name is taken whether it exists or not
get_unique_pathMutant(dir, base_name, extension) == base_name \o extension

get_unique_path(dir, base_name, extension) ==
    LET dst_path == base_name \o extension
    IN  IF dst_path \notin dir THEN dst_path
        ELSE UniqueFrom(dir, base_name, extension, 1)

\* "Real Title"
RealTitle == <<82, 101, 97, 108, 32, 84, 105, 116, 108, 101>>

\* what the output folder holds before the copy: nothing; an MP3 of the
\* title; that and its first successor; an image of the title; the
\* successor and the image
SampleOutputs ==
    LET mp3   == RealTitle \o SuffixText(".mp3")
        mp3_1 == RealTitle \o <<95, 49>> \o SuffixText(".mp3")
        jpg   == RealTitle \o SuffixText(".jpg")
    IN  {{}, {mp3}, {mp3, mp3_1}, {jpg}, {mp3_1, jpg}}

\* the for loop is exhausted
MappingDone ==
    /\ pc = "map"
    /\ k >= Len(items)
    /\ pc' = "mapped"
    /\ UNCHANGED <<scanVars, mainVars, sanVars, tagVars>>

\* if args.output: ... else: print the hint
NoOutput ==
    /\ pc = "mapped"
    /\ pc' = "done"
    /\ UNCHANGED <<scanVars, mainVars, sanVars, tagVars>>

\* output_dir.mkdir(parents=True, exist_ok=True); confirm != "yes"
Cancelled ==
    /\ pc = "mapped"
    /\ \E found \in SampleOutputs : output_dir' = found
    /\ pc' = "done"
    /\ UNCHANGED <<scanVars, folder, id3_only, no_images, has_mutagen, k, mapping, loc,
                   row, copied, counts, sanVars, tagVars>>

\* output_dir.mkdir(parents=True, exist_ok=True); confirm == "yes";
\* mp3_count = img_count = skipped = 0
StartCopy ==
    /\ pc = "mapped"
    /\ \E found \in SampleOutputs : output_dir' = found
    /\ row' = 0
    /\ copied' = <<>>
    /\ counts' = NoCounts
    /\ pc' = "copy"
    /\ UNCHANGED <<scanVars, folder, id3_only, no_images, has_mutagen, k, mapping, loc,
                   sanVars, tagVars>>

\* one iteration of for m in mapping (lines 301-315); a shutil.copy2 call is
\* logged with the row it serves and the folder it found
CopyItem ==
    /\ pc = "copy"
    /\ row < Len(mapping)
    /\ LET r == mapping[row + 1]
       IN  IF ~r.mp3_exists
           THEN /\ counts' = [counts EXCEPT !.skipped = @ + 1]
                /\ UNCHANGED <<output_dir, copied>>
           ELSE LET mp3_dst  == get_unique_path(output_dir, r.final_title, SuffixText(".mp3"))
                    mp3_copy == [entry |-> row + 1, src |-> <<r.mp3_src, ".mp3">>,
                                 base_name |-> r.final_title,
                                 extension |-> SuffixText(".mp3"),
                                 dst |-> mp3_dst, before |-> output_dir]
                    with_mp3 == output_dir \cup {mp3_dst}
                IN  IF r.img_src = NoImage
                    THEN /\ output_dir' = with_mp3
                         /\ copied' = Append(copied, mp3_copy)
                         /\ counts' = [counts EXCEPT !.mp3_count = @ + 1]
                    ELSE LET extension == SuffixText(Lower(r.img_src))
                             img_dst   == get_unique_path(with_mp3, r.final_title, extension)
                             img_copy  == [entry |-> row + 1, src |-> <<r.mp3_src, r.img_src>>,
                                           base_name |-> r.final_title,
                                           extension |-> extension,
                                           dst |-> img_dst, before |-> with_mp3]
                         IN  /\ output_dir' = with_mp3 \cup {img_dst}
                             /\ copied' = copied \o <<mp3_copy, img_copy>>
                             /\ counts' = [counts EXCEPT !.mp3_count = @ + 1,
                                                          !.img_count = @ + 1]
    /\ row' = row + 1
    /\ pc' = pc
    /\ UNCHANGED <<scanVars, folder, id3_only, no_images, has_mutagen, k, mapping, loc,
                   sanVars, tagVars>>

\* the copy loop is exhausted: print the summary
CopyDone ==
    /\ pc = "copy"
    /\ row >= Len(mapping)
    /\ pc' = "done"
    /\ UNCHANGED <<scanVars, mainVars, sanVars, tagVars>>

Next ==
    \/ ReadEntry \/ ScanReturn \/ NoItems \/ StartMapping \/ MapItem \/ MappingDone
    \/ NoOutput \/ Cancelled \/ StartCopy \/ CopyItem \/ CopyDone

Spec == Init /\ [][Next]_vars

(***************************************************************************)
(* Claims about the mapping loop (checked under Spec).                     *)
(***************************************************************************)
\* C1: title resolution takes, for every entry, the first that succeeds of
\* (1) the embedded-tag lookup, when it yields a string of length >= 3:
\* source ID3; (2) unless --id3-only, the playlist title, when non-empty and
\* not identifier-like: source PLAYLIST; (3) the canonical uuid: source
\* UUID.  With --id3-only the source is never PLAYLIST.
C1_TitlePriority ==
    /\ (id3_only => \A n \in 1..Len(mapping) : mapping[n].title_source # "PLAYLIST")
    /\ (pc \in {"map", "mapped"} /\ k >= 1 =>
          LET entry  == items[k]
              lookup == get_id3_title(folder[entry.uuid])
          IN  /\ mapping[k].uuid = entry.uuid
              /\ mapping[k].title_source = loc.title_source
              /\ IF lookup # None /\ Len(lookup) >= 3
                 THEN loc.final_title = lookup /\ loc.title_source = "ID3"
                 ELSE IF /\ ~id3_only
                         /\ entry.pl_title # <<>>
                         /\ ~LooksLikeIdentifier(entry.pl_title)
                 THEN loc.final_title = entry.pl_title /\ loc.title_source = "PLAYLIST"
                 ELSE loc.final_title = entry.uuid /\ loc.title_source = "UUID")

\* a run without --id3-only in which one entry took its tag title although
\* it had a playlist title, and another entry its playlist title
C1_Witness ==
    /\ pc = "mapped"
    /\ ~id3_only
    /\ \E a, b \in 1..Len(mapping) :
          /\ mapping[a].title_source = "ID3"
          /\ items[a].pl_title # <<>>
          /\ mapping[b].title_source = "PLAYLIST"
          /\ mapping[b].final_title = items[b].pl_title

(***************************************************************************)
(* Claims about the copy loop (checked under Spec).                        *)
(***************************************************************************)
\* base_j + ext, j written in decimal
Numbered(base, j, ext) ==
    base \o <<95>> \o (IF j < 10 THEN <<48 + j>> ELSE <<48 + (j \div 10), 48 + (j % 10)>>)
         \o ext

\* C12: get_unique_path(dir, base, ext) returns dir/base+ext when that path
\* is unused, and otherwise dir/base_k+ext for the smallest k >= 1 whose path
\* is unused; the search ends after at most as many steps as the folder has
\* files.  So no copy of the copy loop writes to a path that existed before
\* that copy, and no two copies receive the same destination path.
C12_UniqueDestinations ==
    /\ \A n \in 1..Len(copied) :
          LET c == copied[n]
          IN  /\ IF c.base_name \o c.extension \notin c.before
                 THEN c.dst = c.base_name \o c.extension
                 ELSE \E j \in 1..Cardinality(c.before) :
                         /\ c.dst = Numbered(c.base_name, j, c.extension)
                         /\ \A h \in 1..(j - 1) :
                                Numbered(c.base_name, h, c.extension) \in c.before
              /\ c.dst \notin c.before
              /\ c.dst \in output_dir
    /\ \A a, b \in 1..Len(copied) : a # b => copied[a].dst # copied[b].dst

\* a finished run that copied the MP3s of two different entries with the
\* same title into a folder that held the title and its first successor:
\* they went to _2 and _3
C12_Witness ==
    /\ pc = "done"
    /\ \E a, b \in 1..Len(copied) :
          /\ copied[a].entry < copied[b].entry
          /\ copied[a].src[1] # copied[b].src[1]
          /\ copied[a].base_name = copied[b].base_name
          /\ copied[a].extension = <<46, 109, 112, 51>>
          /\ copied[b].extension = <<46, 109, 112, 51>>
          /\ copied[a].dst = copied[a].base_name \o <<95, 50, 46, 109, 112, 51>>
          /\ copied[b].dst = copied[b].base_name \o <<95, 51, 46, 109, 112, 51>>

(***************************************************************************)
(* Claims about failures in the mapping loop (checked under Spec).         *)
(***************************************************************************)
\* C13: failures are isolated entry by entry.  Whatever media files are
\* missing and whatever tag lookups fail, a failed lookup counts as no value
\* (the row has no tag title and takes its title from the playlist or the
\* uuid), the loop goes on to the next entry (it is left only when every
\* entry has its row), and it ends with exactly one row for every scanned
\* entry, in scan order.
C13_FailuresIsolated ==
    /\ pc = "map" => Len(mapping) = k /\ k <= Len(items)
    /\ pc \in {"mapped", "copy", "done"} => Len(mapping) = Len(items)
    /\ \A n \in 1..Len(mapping) :
          LET file == folder[items[n].uuid]
          IN  /\ mapping[n].uuid = items[n].uuid
              /\ mapping[n].mp3_exists = file.exists
              /\ Len(mapping[n].final_title) >= 1
              /\ (~file.exists \/ ~file.readable \/ ~has_mutagen =>
                     /\ mapping[n].id3_title = <<-1>>
                     /\ mapping[n].title_source \in {"PLAYLIST", "UUID"})

\* a finished mapping of two entries: the tags of the first one's file could
\* not be read, the second one has its title from its tags
C13_Witness ==
    /\ pc = "mapped"
    /\ has_mutagen
    /\ Len(items) = 2 /\ Len(mapping) = 2
    /\ folder[items[1].uuid].exists /\ ~folder[items[1].uuid].readable
    /\ mapping[1].id3_title = <<-1>>
    /\ mapping[2].title_source = "ID3"

\* the destination of a copy without its extension
Stem(c) == SubSeq(c.dst, 1, Len(c.dst) - Len(c.extension))

\* C14: in the copy phase, whenever the MP3 of an entry and its image are
\* both copied, the two destinations have the same base name (the file name
\* without its extension), whatever the output folder held before and
\* whatever the entries are.
C14_ImageFollowsMp3 ==
    \A a, b \in 1..Len(copied) :
        copied[a].entry = copied[b].entry => Stem(copied[a]) = Stem(copied[b])

=============================================================================
